---- MODULE Spec2Model ----
(***************************************************************************)
(* leap.mx alias_resolver: the Postfix TCP-map session (AliasResolver) and *)
(* the factory that owns the backend connection (AliasResolverFactory).    *)
(*                                                                         *)
(* AliasResolver derives from twisted.protocols.postfix                    *)
(* .PostfixTCPMapServer; lineReceived, _cbGot and _cbNot are inherited     *)
(* from that base class and call the sendCode overridden here.  The        *)
(* backend adapter (leap.mx.couchdb.ConnectedCouchDB) is outside the       *)
(* source: its connection attempt and its query are asynchronous and may   *)
(* fail.                                                                   *)
(***************************************************************************)
EXTENDS Integers, Sequences, FiniteSets, TLC

\* ------------------------------------------------------------- bounds
MaxAttempts == 2
MaxReq == 2

\* The connection attempts ever started, and the two connections a peer
\* may open.
Attempts == 1..MaxAttempts
Sessions == {"s1", "s2"}

\* Python's None and a present value, for optional strings and numbers.
None    == <<>>
Some(x) == <<x>>

\* ------------------------------------------------------ StatusCodes
OK    == "OK Others might say 'HELLA AWESOME'...but we're not convinced."
RETRY == "RETRY Server is busy plotting revolution; requests might take a while."
BAD   == "BAD bad Leroy Brown, baddest man in the whole...er. Malformed request."
NOKEY == "NOKEY Couldn't find your keys, sorry. Did you check in the sofa?"
DEFER == "DEFER_IF_LOCAL xxx fill me in"
DENY  == "DENY no gurlz aloud in teh tree house."
FAIL  == "FAIL this belongs on the failblog"

SMTPCodes ==
  [k \in {"200", "400", "500", "550", "552", "553", "554"} |->
     CASE k = "200" -> OK
       [] k = "400" -> RETRY
       [] k = "500" -> BAD
       [] k = "550" -> NOKEY
       [] k = "552" -> DEFER
       [] k = "553" -> DENY
       [] k = "554" -> FAIL]

Digit(d) ==
  CASE d = 0 -> "0" [] d = 1 -> "1" [] d = 2 -> "2" [] d = 3 -> "3"
    [] d = 4 -> "4" [] d = 5 -> "5" [] d = 6 -> "6" [] d = 7 -> "7"
    [] d = 8 -> "8" [] d = 9 -> "9"

\* str(n) of a non-negative int.
RECURSIVE str(_)
str(n) == IF n < 10 THEN Digit(n) ELSE str(n \div 10) \o Digit(n % 10)

\* StatusCodes.get for an int without its `k != '500'`.
StatusCodes_get_with500(status_code) ==
  IF status_code = 0 THEN None
  ELSE IF \E k \in DOMAIN SMTPCodes : k = str(status_code)
       THEN Some(<<Some(status_code), SMTPCodes[str(status_code)]>>)
       ELSE Some(<<None, "">>)

\* StatusCodes.get for an int status_code: None when the code is falsy,
\* else the pair (code, text) of the first key equal to str(code) other
\* than '500', else the pair (None, '').
StatusCodes_get(status_code) ==
  IF status_code = 0 THEN None
  ELSE IF \E k \in DOMAIN SMTPCodes : k = str(status_code) /\ k # "500"
       THEN Some(<<Some(status_code), SMTPCodes[str(status_code)]>>)
       ELSE Some(<<None, "">>)

SMTPStrings ==
  [n \in {"OK", "RETRY", "BAD", "NOKEY", "DEFER", "DENY", "FAIL"} |->
     CASE n = "OK" -> 200
       [] n = "RETRY" -> 400
       [] n = "BAD" -> 500
       [] n = "NOKEY" -> 550
       [] n = "DEFER" -> 552
       [] n = "DENY" -> 553
       [] n = "FAIL" -> 554]

\* str.upper over the names used here.
upper(s) ==
  CASE s = "ok" -> "OK"
    [] s = "fail" -> "FAIL"
    [] OTHER -> s

\* getattr(self, name, ''): the class attribute of that name.
getattr(name) ==
  CASE name = "OK" -> OK
    [] name = "RETRY" -> RETRY
    [] name = "BAD" -> BAD
    [] name = "NOKEY" -> NOKEY
    [] name = "DEFER" -> DEFER
    [] name = "DENY" -> DENY
    [] name = "FAIL" -> FAIL
    [] OTHER -> ""

\* StatusCodes.get for a str status_code: None when it is empty; when its
\* upper case is a key of SMTPStrings, the pair of SMTPStrings[status_code]
\* (KeyError unless status_code itself is the key) and the attribute of
\* the upper-case name; else the pair (500, FAIL).
StatusCodes_get_str(status_code) ==
  IF status_code = "" THEN [raised |-> FALSE, value |-> None]
  ELSE IF upper(status_code) \in DOMAIN SMTPStrings
       THEN IF status_code \in DOMAIN SMTPStrings
            THEN [raised |-> FALSE,
                  value |-> Some(<<Some(SMTPStrings[status_code]),
                                   getattr(upper(status_code))>>)]
            ELSE [raised |-> TRUE, value |-> None]
       ELSE [raised |-> FALSE, value |-> Some(<<Some(500), FAIL>>)]

\* ------------------------------------------------------- identifiers
\* uuid.uuid5(uuid.NAMESPACE_URL, str(alias)) over the aliases used here.
createUUID(alias) ==
  CASE alias = "isis@leap.se" -> "7194878e-4aea-563f-85a4-4f58519f3c4f"
    [] alias = "drebs@leap.se" -> "e66158b4-d219-5714-b7d6-586e62777300"

\* UUID.get_urn
get_urn(userid) == "urn:uuid:" \o userid

\* virtual_alias_map without its test of use_virtual_transport.
virtual_alias_map_anyuse(p, key) ==
  LET userid == createUUID(key)
  IN  IF p.virtual_transport # None
      THEN get_urn(userid) \o p.virtual_transport[1]
      ELSE get_urn(userid)

\* AliasResolver.virtual_alias_map on a session whose attributes are p.
virtual_alias_map(p, key) ==
  LET userid == createUUID(key)
  IN  IF p.use_virtual_transport /\ p.virtual_transport # None
      THEN get_urn(userid) \o p.virtual_transport[1]
      ELSE get_urn(userid)

\* ---------------------------------------------------------- backend
Keys == {"isis", "ghost"}

\* urllib.quote over the stored values: '@' is not a safe character.
quote(value) ==
  CASE value = "isis@leap.se" -> "isis%40leap.se"
    [] OTHER -> value

\* ------------------------------------------------------------ state
VARIABLES
  database_connected,  \* AliasResolverFactory.database_connected
  couch,               \* AliasResolverFactory.couch: 0 unset, else the attempt it refers to
  conn,                \* each connection attempt of the adapter
  returned,            \* what the last connectDatabase call returned
  store,               \* the backend's content: key -> optional value
  proto,               \* the sessions built by buildProtocol
  lost,                \* sessions whose connection the transport dropped
  reqs,                \* the request lines received, in order of receipt
  out,                 \* per session, the response lines written
  virtual_transport,   \* AliasResolverFactory.virtual_transport
  use_virtual_transport, \* AliasResolverFactory.use_virtual_transport
  call                 \* the last direct call of an operation, with its result

config == <<virtual_transport, use_virtual_transport>>

vars == <<database_connected, couch, conn, returned, store, proto, lost, reqs, out,
          config, call>>

Self == "factory"

\* ------------------------------------------------------------- Init
\* AliasResolverFactory.__init__: database_connected is False; with a
\* couch_host the constructor calls connectDatabase and keeps what it
\* returns in self.couch, without one self.couch is never assigned.
NoCall == [fn |-> "none"]

NotBuilt ==
  [built |-> FALSE, factory |-> "none",
   virtual_transport |-> Some("@example.com"), use_virtual_transport |-> FALSE]

Construct(vt, use_vt) ==
  /\ database_connected = FALSE
  /\ virtual_transport = vt
  /\ use_virtual_transport = use_vt
  /\ \E couch_host \in {"None", "host"} :
       IF couch_host = "None"
       THEN /\ couch = 0
            /\ conn = [i \in Attempts |-> "none"]
       ELSE /\ couch = 1
            /\ conn = [i \in Attempts |-> IF i = 1 THEN "connecting" ELSE "none"]
  /\ returned = [raised |-> FALSE, obj |-> 0]
  /\ store = [k \in Keys |-> IF k = "isis" THEN Some("isis@leap.se") ELSE None]
  /\ proto = [s \in Sessions |-> NotBuilt]
  /\ lost = {}
  /\ reqs = <<>>
  /\ out = [s \in Sessions |-> <<>>]
  /\ call = NoCall

\* The factory with the constructor's defaults for virtual_transport and
\* use_virtual_transport.
Init == Construct(None, FALSE)

\* ----------------------------------------------------- the factory
\* buildProtocol opening a backend connection for the session it builds.
buildProtocol_ownconn(s) ==
  /\ ~proto[s].built
  /\ proto' = [proto EXCEPT ![s] = [built |-> TRUE, factory |-> Self,
                                    virtual_transport |-> virtual_transport,
                                    use_virtual_transport |-> use_virtual_transport]]
  /\ conn' = [conn EXCEPT ![1] = "connecting"]
  /\ UNCHANGED <<database_connected, couch, returned, store, lost, reqs, out, config, call>>

buildProtocol(s) ==
  /\ ~proto[s].built
  /\ proto' = [proto EXCEPT ![s] = [built |-> TRUE, factory |-> Self,
                                    virtual_transport |-> virtual_transport,
                                    use_virtual_transport |-> use_virtual_transport]]
  /\ UNCHANGED <<database_connected, couch, conn, returned, store, lost, reqs, out, config, call>>

\* The next attempt the adapter would create.
NewAttempt == CHOOSE i \in Attempts : conn[i] = "none" /\ \A j \in Attempts : conn[j] = "none" => i <= j

connectDatabase ==
  IF ~database_connected
  THEN /\ \E i \in Attempts : conn[i] = "none"
       /\ conn' = [conn EXCEPT ![NewAttempt] = "connecting"]
       /\ returned' = [raised |-> FALSE, obj |-> NewAttempt]
       /\ UNCHANGED <<database_connected, couch, store, proto, lost, reqs, out, config, call>>
  ELSE /\ returned' = IF couch = 0 THEN [raised |-> TRUE, obj |-> 0]
                                   ELSE [raised |-> FALSE, obj |-> couch]
       /\ UNCHANGED <<database_connected, couch, conn, store, proto, lost, reqs, out, config, call>>

\* The attempt completes successfully: the callback added by
\* connectDatabase runs.
cb_connectDatabase(i) ==
  /\ conn[i] = "connecting"
  /\ conn' = [conn EXCEPT ![i] = "connected"]
  /\ database_connected' = TRUE
  /\ UNCHANGED <<couch, returned, store, proto, lost, reqs, out, config, call>>

\* An errback that also clears the flag.
eb_connectDatabase_reset(i) ==
  /\ conn[i] = "connecting"
  /\ conn' = [conn EXCEPT ![i] = "failed"]
  /\ database_connected' = FALSE
  /\ UNCHANGED <<couch, returned, store, proto, lost, reqs, out, config, call>>

\* The attempt fails: the errback added by connectDatabase logs it.
eb_connectDatabase(i) ==
  /\ conn[i] = "connecting"
  /\ conn' = [conn EXCEPT ![i] = "failed"]
  /\ UNCHANGED <<database_connected, couch, returned, store, proto, lost, reqs, out, config, call>>

\* ----------------------------------------------------- the session
\* The request lines a peer sends, as their whitespace-separated tokens.
Lines ==
  { <<"get">>, <<"get", "isis">>, <<"get", "ghost">>,
    <<"put">>, <<"put", "isis">>, <<"put", "isis", "x@y">>,
    <<"put", "ghost", "x@y">>, <<"put", "ghost", "x@y", "z">>,
    <<"delete", "isis">> }

Line(code, text) == [code |-> code, text |-> text]

\* Python's `message or default`.
Or(message, default) == IF message = None \/ message = Some("") THEN default ELSE message[1]

\* AliasResolver.sendCode with an int code (the assertion passes).
\* status_codes.get returns a tuple or None, so `msg += " " + message`
\* raises TypeError whenever message is a str, before sendLine; with no
\* message the line is the code and the empty text.
sendCode(code, message) ==
  LET msg == StatusCodes_get(code)
  IN  IF message # None /\ (msg = None \/ Len(msg[1]) = 2)
      THEN [sent |-> <<>>, raised |-> TRUE]
      ELSE [sent |-> <<Line(code, Or(message, ""))>>, raised |-> FALSE]

\* AliasResolverFactory.get: the query on self.couch when connected
\* (AttributeError when self.couch was never assigned), else
\* DatabaseNotConnected is raised.
get(key) ==
  IF database_connected
  THEN IF couch = 0 THEN "AttributeError" ELSE "query"
  ELSE "DatabaseNotConnected"

\* AliasResolverFactory.put(self, key, **kwargs): called with a key and
\* a value it cannot bind them, and its body raises NotImplemented, which
\* is no exception: TypeError either way.
put(key, value) == "TypeError"

\* Failure.getErrorMessage of what a backend call raised.
getErrorMessage(fail) ==
  CASE fail = "DatabaseNotConnected" -> "Must be connected to a database."
    [] fail = "AttributeError" -> "'AliasResolverFactory' object has no attribute 'couch'"
    [] OTHER -> "backend fault"

\* PostfixTCPMapServer._cbGot and _cbNot, the callbacks do_get adds.
cbGot(value) ==
  IF value = None THEN sendCode(500, None)
  ELSE sendCode(200, Some(quote(value[1])))

cbNot(fail) == sendCode(400, Some(getErrorMessage(fail)))

\* The request records kept for each line received: sess and line, st
\* ("pending" while a backend query is outstanding, then "done"), how
\* the reply was decided ("sync" inside lineReceived, or by the query's
\* "result" or "fault"), fault, called (the backend-facing call made for
\* it), and connected, the value of database_connected when the line
\* arrived.
\*
\* What a handler did: the lines written, whether an exception left it
\* (raised), what became of a fault inside a Deferred ("logged" by the
\* log.err errback, "unhandled" with no errback), whether a backend
\* query is outstanding, and which backend-facing call the handler made
\* ("none", "Factory.get" or "do_query").
Outcome(sent, raised, fault, pending, called) ==
  [sent |-> sent, raised |-> raised, fault |-> fault, pending |-> pending,
   called |-> called]

\* do_get without its test of the key: Factory.get is called for every
\* request.
do_get_nocheck(key) ==
  LET r == get(key)
  IN  IF r = "query"
      THEN Outcome(<<>>, FALSE, "none", TRUE, "Factory.get")
      ELSE LET c == cbNot(r)
           IN  Outcome(c.sent, FALSE, IF c.raised THEN "logged" ELSE "none", FALSE,
                       "Factory.get")

do_get(key) ==
  IF key = None
  THEN LET c == sendCode(500, None)
       IN  Outcome(c.sent, c.raised, "none", FALSE, "none")
  ELSE LET r == get(key[1])
       IN  IF r = "query"
           THEN Outcome(<<>>, FALSE, "none", TRUE, "Factory.get")
           ELSE LET c == cbNot(r)
                IN  Outcome(c.sent, FALSE, IF c.raised THEN "logged" ELSE "none", FALSE,
                            "Factory.get")

\* keyAndValue.split(None, 1): at most two parts, the second the rest.
split1(tokens) ==
  IF Len(tokens) = 1 THEN <<tokens[1]>> ELSE <<tokens[1], Tail(tokens)>>

\* do_put without its `except ValueError`: a single token goes on to the
\* existence check.
do_put_nocatch(keyAndValue) ==
  IF keyAndValue = None
  THEN LET c == sendCode(500, None)
       IN  Outcome(c.sent, FALSE, IF c.raised THEN "unhandled" ELSE "none", FALSE, "none")
  ELSE Outcome(<<>>, FALSE, "unhandled", FALSE, "do_query")

\* do_put is an inlineCallbacks generator: what is raised inside it
\* fails the Deferred it returns, to which nothing adds an errback.
\* AliasResolver has no do_query: the existence check raises
\* AttributeError.
do_put(keyAndValue) ==
  IF keyAndValue = None \/ Len(split1(keyAndValue[1])) # 2
  THEN LET c == sendCode(500, None)
       IN  Outcome(c.sent, FALSE, IF c.raised THEN "unhandled" ELSE "none", FALSE, "none")
  ELSE Outcome(<<>>, FALSE, "unhandled", FALSE, "do_query")

\* do_delete has no yield: it is called at once, and `raise
\* NotImplemented` is a TypeError that leaves it.
do_delete(key) == Outcome(<<>>, TRUE, "none", FALSE, "none")

Verbs == {"get", "put", "delete"}

\* PostfixTCPMapServer.lineReceived: split the verb from the rest, find
\* do_<verb>, call it, and on an exception send code 400 with a message.
\* `escaped` says that the exception left lineReceived itself.
dispatch(line) ==
  LET request == line[1]
      params  == IF Len(line) = 1 THEN None ELSE Some(Tail(line))
  IN  IF request \notin Verbs
      THEN LET c == sendCode(400, Some("unknown command"))
           IN  [sent |-> c.sent, fault |-> "none", pending |-> FALSE, escaped |-> c.raised,
                called |-> "none"]
      ELSE LET r == CASE request = "get" -> do_get(params)
                      [] request = "put" -> do_put(params)
                      [] request = "delete" -> do_delete(params)
           IN  IF r.raised
               THEN LET c == sendCode(400, Some("Command failed"))
                    IN  [sent |-> r.sent \o c.sent, fault |-> r.fault,
                         pending |-> FALSE, escaped |-> c.raised, called |-> r.called]
               ELSE [sent |-> r.sent, fault |-> r.fault,
                     pending |-> r.pending, escaped |-> FALSE, called |-> r.called]

\* The lines `sent`, each tagged with the request that caused it.
Tagged(sent, r) == [i \in 1..Len(sent) |-> [req |-> r, code |-> sent[i].code, text |-> sent[i].text]]

\* A request line arrives on session s.  An exception that leaves
\* lineReceived makes the transport drop the connection.
lineReceived(s, line) ==
  /\ proto[s].built
  /\ s \notin lost
  /\ Len(reqs) < MaxReq
  /\ LET d == dispatch(line)
         r == Len(reqs) + 1
     IN  /\ reqs' = Append(reqs, [sess |-> s, line |-> line,
                                  st |-> IF d.pending THEN "pending" ELSE "done",
                                  how |-> "sync", called |-> d.called,
                                  fault |-> IF d.escaped THEN "unhandled" ELSE d.fault,
                                  connected |-> database_connected])
         /\ out' = [out EXCEPT ![s] = @ \o Tagged(d.sent, r)]
         /\ lost' = IF d.escaped THEN lost \cup {s} ELSE lost
  /\ UNCHANGED <<database_connected, couch, conn, returned, store, proto, config, call>>

\* ConnectedCouchDB.queryByEmailOrAlias on the stored content.
queryByEmailOrAlias(key) ==
  IF Len(key) = 1 /\ key[1] \in DOMAIN store THEN store[key[1]] ELSE None

\* A callback of do_get's Deferred ran for request r and did c, the
\* query having ended `how` ("result" or "fault"); a line written to a
\* dropped connection goes nowhere.
Completed(r, c, how) ==
  /\ reqs' = [reqs EXCEPT ![r].st = "done", ![r].how = how,
                          ![r].fault = IF c.raised THEN "logged" ELSE "none"]
  /\ out' = IF reqs[r].sess \in lost THEN out
            ELSE [out EXCEPT ![reqs[r].sess] = @ \o Tagged(c.sent, r)]
  /\ UNCHANGED <<database_connected, couch, conn, returned, store, proto, lost, config, call>>

\* The backend answers the outstanding query of request r.
queryResult(r) ==
  /\ reqs[r].st = "pending"
  /\ conn[couch] = "connected"
  /\ Completed(r, cbGot(queryByEmailOrAlias(Tail(reqs[r].line))), "result")

\* The outstanding query of request r fails.
queryFault(r) ==
  /\ reqs[r].st = "pending"
  /\ Completed(r, cbNot("fault"), "fault")

\* ------------------------------------------------ direct calls
\* The operations called directly, each leaving its arguments and its
\* result in `call`.
CodeArgs == {200, 400, 500, 550, 552, 553, 554, 999}
NameArgs == {"OK", "RETRY", "BAD", "NOKEY", "DEFER", "DENY", "FAIL", "ok", "WAT"}
SendCodes == {200, 500}
Messages == {None, Some("unknown command")}
Aliases  == {"isis@leap.se", "drebs@leap.se"}

StatusCodes_get_int_call(status_code) ==
  /\ call' = [fn |-> "StatusCodes.get(int)", arg |-> status_code,
              result |-> StatusCodes_get(status_code)]
  /\ UNCHANGED <<database_connected, couch, conn, returned, store, proto, lost, reqs,
                 out, config>>

StatusCodes_get_str_call(status_code) ==
  /\ call' = [fn |-> "StatusCodes.get(str)", arg |-> status_code,
              result |-> StatusCodes_get_str(status_code)]
  /\ UNCHANGED <<database_connected, couch, conn, returned, store, proto, lost, reqs,
                 out, config>>

\* sendCode called on session s; the lines it writes carry request 0.
sendCode_call(s, code, message) ==
  /\ proto[s].built
  /\ s \notin lost
  /\ Len(out[s]) < MaxReq
  /\ LET c == sendCode(code, message)
     IN  /\ out' = [out EXCEPT ![s] = @ \o Tagged(c.sent, 0)]
         /\ call' = [fn |-> "sendCode", sess |-> s, code |-> code, message |-> message,
                     before |-> Len(out[s]), raised |-> c.raised]
  /\ UNCHANGED <<database_connected, couch, conn, returned, store, proto, lost, reqs,
                 config>>

virtual_alias_map_call(s, key) ==
  /\ proto[s].built
  /\ call' = [fn |-> "virtual_alias_map", sess |-> s, key |-> key,
              result |-> virtual_alias_map(proto[s], key)]
  /\ UNCHANGED <<database_connected, couch, conn, returned, store, proto, lost, reqs,
                 out, config>>

\* Factory.put called as do_put calls it.
put_call(key, value) ==
  /\ call' = [fn |-> "put", key |-> key, value |-> value,
              connected |-> database_connected, result |-> put(key, value)]
  /\ UNCHANGED <<database_connected, couch, conn, returned, store, proto, lost, reqs,
                 out, config>>

\* A factory constructed with any virtual_transport and
\* use_virtual_transport.
InitCalls ==
  \E vt \in {None, Some("@example.com")}, use_vt \in BOOLEAN : Construct(vt, use_vt)

\* The status codes and the sessions' own operations.
NextCalls ==
  \/ \E s \in Sessions : buildProtocol(s)
  \/ \E c \in CodeArgs : StatusCodes_get_int_call(c)
  \/ \E n \in NameArgs : StatusCodes_get_str_call(n)
  \/ \E s \in Sessions, c \in SendCodes, m \in Messages : sendCode_call(s, c, m)
  \/ \E s \in Sessions, k \in Aliases : virtual_alias_map_call(s, k)

SpecCalls == InitCalls /\ [][NextCalls]_vars

\* The factory's own operations.
NextFactory ==
  \/ \E s \in Sessions : buildProtocol(s)
  \/ connectDatabase
  \/ \E i \in Attempts : cb_connectDatabase(i)
  \/ \E i \in Attempts : eb_connectDatabase(i)
  \/ \E k \in Keys : put_call(k, "x@y")

SpecFactory == Init /\ [][NextFactory]_vars

Next ==
  \/ \E s \in Sessions : buildProtocol(s)
  \/ connectDatabase
  \/ \E i \in Attempts : cb_connectDatabase(i)
  \/ \E i \in Attempts : eb_connectDatabase(i)
  \/ \E s \in Sessions, line \in Lines : lineReceived(s, line)
  \/ \E r \in 1..Len(reqs) : queryResult(r)
  \/ \E r \in 1..Len(reqs) : queryFault(r)

Spec == Init /\ [][Next]_vars

\* ------------------------------------------------------------ claims
Requests == 1..Len(reqs)

\* The response lines written for request r, in the order written.
LinesOf(r) == SelectSeq(out[reqs[r].sess], LAMBDA l : l.req = r)

Verb(r) == reqs[r].line[1]

\* A get with a key, and a put whose argument is a key and a value.
IsGetKey(r) == Verb(r) = "get" /\ Len(reqs[r].line) = 2
IsPutPair(r) == Verb(r) = "put" /\ Len(reqs[r].line) = 3
KeyOf(r) == reqs[r].line[2]

\* C1: every accepted request line (get, put, delete, any argument shape,
\* any backend outcome) gets exactly one response line: once its handling
\* is over, one line has been written for it, never zero and never two.
C1_ExactlyOneReply ==
  \A r \in Requests : reqs[r].st = "done" => Len(LinesOf(r)) = 1

\* C2: at most one backend connection attempt is in flight at any time.
C2_OneAttemptInFlight ==
  Cardinality({i \in Attempts : conn[i] = "connecting"}) <= 1

\* C3: a get with a key received while database_connected is False is
\* answered with one 400 line, and no fault is left from handling it.
C3_DisconnectedGetRetry ==
  \A r \in Requests :
    (IsGetKey(r) /\ ~reqs[r].connected /\ reqs[r].st = "done")
      => /\ Len(LinesOf(r)) = 1
         /\ LinesOf(r)[1].code = 400
         /\ reqs[r].fault = "none"

\* C4: a put for a key that already has a stored value is answered with
\* 553, and the stored value is what it was.
C4_PutExistingDenied ==
  \A r \in Requests :
    (IsPutPair(r) /\ store[KeyOf(r)] # None /\ reqs[r].st = "done")
      => /\ Len(LinesOf(r)) = 1
         /\ LinesOf(r)[1].code = 553
         /\ store[KeyOf(r)] = Some("isis@leap.se")

\* C5: a put of a key and a value for a key absent from the backend is
\* answered with 200 and stores the pair.
C5_PutAbsentStored ==
  \A r \in Requests :
    (IsPutPair(r) /\ KeyOf(r) = "ghost" /\ reqs[r].st = "done")
      => /\ Len(LinesOf(r)) = 1
         /\ LinesOf(r)[1].code = 200
         /\ store[KeyOf(r)] = Some(reqs[r].line[3])

\* C6: a delete with any key is answered with the one rejection line
\* 500, and no fault is left from handling it.
C6_DeleteRejected ==
  \A r \in Requests :
    (Verb(r) = "delete" /\ reqs[r].st = "done")
      => /\ Len(LinesOf(r)) = 1
         /\ LinesOf(r)[1].code = 500
         /\ reqs[r].fault = "none"

\* C7: on one connection the response lines of get requests are written
\* in the order in which their request lines were received, also when the
\* backend completes a later query before an earlier one.
C7_RepliesInRequestOrder ==
  \A s \in Sessions : \A i, j \in 1..Len(out[s]) :
    (i < j /\ IsGetKey(out[s][i].req) /\ IsGetKey(out[s][j].req))
      => out[s][i].req <= out[s][j].req

\* C8: a connection attempt that completes successfully leaves
\* database_connected True, and one that fails leaves it False, so that a
\* later connectDatabase starts a new attempt.
C8_ConnectLifecycle ==
  [][\A i \in Attempts :
       /\ (conn[i] = "connecting" /\ conn'[i] = "connected") => database_connected'
       /\ (conn[i] = "connecting" /\ conn'[i] = "failed") => ~database_connected']_vars

\* C9: a get for a key the connected backend maps to a value, the query
\* having returned it, is answered with one 200 line carrying the value.
C9_GetFoundOk ==
  \A r \in Requests :
    (IsGetKey(r) /\ reqs[r].how = "result" /\ store[KeyOf(r)] # None)
      => /\ Len(LinesOf(r)) = 1
         /\ LinesOf(r)[1].code = 200
         /\ LinesOf(r)[1].text \in {store[KeyOf(r)][1], quote(store[KeyOf(r)][1])}

\* C10: a get for a key the connected backend does not contain, the query
\* having returned no value, is answered with 550 and no other code.
C10_GetMissingNoKey ==
  \A r \in Requests :
    (IsGetKey(r) /\ reqs[r].how = "result" /\ store[KeyOf(r)] = None)
      => /\ Len(LinesOf(r)) = 1
         /\ LinesOf(r)[1].code = 550

\* C11 (as stated): a put whose argument is not exactly two tokens
\* (missing, one token, three or more) is answered with 500, and no
\* existence check or insert is made for it.
C11_PutNotTwoTokens ==
  \A r \in Requests :
    (Verb(r) = "put" /\ Len(reqs[r].line) # 3 /\ reqs[r].st = "done")
      => /\ Len(LinesOf(r)) = 1
         /\ LinesOf(r)[1].code = 500
         /\ reqs[r].called = "none"

\* C11 (amended): a put whose argument is missing or a single token is
\* answered at once with one 500 line and no existence check or insert is
\* made for it; an argument of two or more tokens is split at the first
\* whitespace into a key and the rest, and goes on to the existence check.
C11_PutFewTokens ==
  \A r \in Requests :
    Verb(r) = "put" =>
      IF Len(reqs[r].line) <= 2
      THEN /\ reqs[r].st = "done" /\ reqs[r].how = "sync"
           /\ Len(LinesOf(r)) = 1
           /\ LinesOf(r)[1].code = 500
           /\ reqs[r].called = "none"
           /\ reqs[r].fault = "none"
      ELSE reqs[r].called = "do_query"

C11_Witness ==
  \E r, q \in Requests :
    /\ reqs[r].line = <<"put">> /\ Len(LinesOf(r)) = 1
    /\ reqs[q].line = <<"put", "isis">> /\ Len(LinesOf(q)) = 1

Variants ==
  { <<"OK", 200, OK>>, <<"RETRY", 400, RETRY>>, <<"BAD", 500, BAD>>,
    <<"NOKEY", 550, NOKEY>>, <<"DEFER", 552, DEFER>>, <<"DENY", 553, DENY>>,
    <<"FAIL", 554, FAIL>> }

GotByName(v) ==
  (call.fn = "StatusCodes.get(str)" /\ call.arg = v[1])
    => call.result = [raised |-> FALSE, value |-> Some(<<Some(v[2]), v[3]>>)]

GotByCode(v) ==
  (call.fn = "StatusCodes.get(int)" /\ call.arg = v[2])
    => call.result = Some(<<Some(v[2]), v[3]>>)

C14_UnknownCodeNokey ==
  (call.fn = "StatusCodes.get(int)" /\ \A v \in Variants : call.arg # v[2])
    => call.result = Some(<<None, NOKEY>>)

\* C15: Factory.put(key, value) delegates to the backend's insert when
\* database_connected is True, and fails the same way for every argument
\* when it is not.
C15_PutDelegates ==
  call.fn = "put" =>
    IF call.connected THEN call.result = "insert" ELSE call.result = "TypeError"

\* C16: a connectDatabase call made while database_connected is True
\* starts no attempt, leaves the flag True and returns the existing
\* connection.
C16_ConnectIdempotent ==
  [][(database_connected /\ returned' # returned)
       => /\ conn' = conn
          /\ database_connected'
          /\ ~returned'.raised
          /\ returned'.obj # 0
          /\ conn[returned'.obj] = "connected"]_vars

Urn(key) == "urn:uuid:" \o createUUID(key)

\* C17 (as stated): the identifier has the configured domain appended
\* exactly when the factory's use_virtual_transport option is set, and is
\* the identifier's text alone otherwise.
C17_SuffixIffOption ==
  call.fn = "virtual_alias_map" =>
    IF use_virtual_transport
    THEN virtual_transport # None /\ call.result = Urn(call.key) \o virtual_transport[1]
    ELSE call.result = Urn(call.key)

\* C17 (amended): the domain is appended exactly when the factory's
\* use_virtual_transport is set and its virtual_transport is a string;
\* otherwise the identifier's text is returned alone.
C17_SuffixIffOptionAndDomain ==
  call.fn = "virtual_alias_map" =>
    IF use_virtual_transport /\ virtual_transport # None
    THEN call.result = Urn(call.key) \o virtual_transport[1]
    ELSE call.result = Urn(call.key)

C17_Witness ==
  /\ call.fn = "virtual_alias_map"
  /\ use_virtual_transport /\ virtual_transport # None
  /\ call.result = Urn(call.key) \o "@example.com"

\* C18: every session built refers to the one factory, and building a
\* session leaves the backend connection state as it was: no attempt is
\* started and the factory's connection is the same.
C18_SessionsShareFactory ==
  /\ [](\A s \in Sessions : proto[s].built => proto[s].factory = Self)
  /\ [][proto' # proto => (conn' = conn /\ couch' = couch
                           /\ database_connected' = database_connected)]_vars

C18_Witness ==
  /\ \A s \in Sessions : proto[s].built /\ proto[s].factory = Self
  /\ database_connected

\* C19: every sendCode call with an int code writes exactly one line with
\* that code, with and without a message, and does not raise.
C19_SendCodeOneLine ==
  call.fn = "sendCode" =>
    /\ ~call.raised
    /\ Len(out[call.sess]) = call.before + 1
    /\ out[call.sess][call.before + 1].code = call.code

\* C20: database_connected is False at construction, becomes True only by
\* the success callback of a connection attempt, and never goes back to
\* False.
C20_ConnectedMonotonic ==
  /\ ~database_connected
  /\ [][/\ database_connected => database_connected'
        /\ (~database_connected /\ database_connected')
             => \E i \in Attempts : conn[i] = "connecting" /\ conn'[i] = "connected"]_vars

C20_Witness ==
  /\ database_connected
  /\ \E i \in Attempts : conn[i] = "failed"
  /\ \E r \in Requests : reqs[r].st = "done"
====
